---- MODULE Spec2Model ----
(***************************************************************************)
(* Model of src/js/techtree-render.js: the TechtreeRenderer class.         *)
(*                                                                         *)
(* The state is one TechtreeRenderer instance together with the things it  *)
(* reads from its environment (the input node list, the container size,    *)
(* whether the progress elements exist).  Node objects are identified by   *)
(* their position in this.nodes; ids are strings.  JavaScript numbers are  *)
(* modelled as exact rationals together with NaN and +/-Infinity.          *)
(***************************************************************************)
EXTENDS Integers, Sequences, FiniteSets, TLC

VARIABLES
    nodes,        \* this.nodes: the input node list (id, type, prereqs)
    progressEls,  \* TRUE iff this.progressText and this.progressFill both exist
    status,       \* "new" | "ready" | "TypeError" | "RangeError"
    nodeMap,      \* this.nodeMap: id -> position in nodes, 0 = no entry
    layer,        \* n.layer for every node object, Undef before computeLayers
    completed,    \* this.completed: set of ids
    pos,          \* n.x, n.y for every node object
    viewport,     \* <<container.clientWidth, container.clientHeight>>
    progress,     \* what updateProgress last wrote to the progress elements
    last,         \* history only: the last handler that ran, the node object it
                  \* was given, and how many ids it took out of this.completed
    drawn,        \* the svg content: the visual class of every node and edge
    staleReads    \* history only: the <<reader, read>> pairs of the last layout
                  \* pass whose sort key read an x not assigned in that pass

vars == <<nodes, progressEls, status, nodeMap, layer, completed, pos,
          viewport, progress, last, drawn, staleReads>>

----------------------------------------------------------------------------
(* Bounds of the model *)

\* largest number of nodes of a well-formed input graph
MaxNodes == 3
\* largest number of nodes of a well-formed input graph with free node types
MaxTypedNodes == 2
\* largest number of nodes of an arbitrary (possibly malformed) input
MaxBuildNodes == 2

\* the largest number of nodes of an input of the layout specification
MaxLayoutNodes == 4
\* depth of the JavaScript call stack: deeper recursion throws RangeError
StackLimit == 8

IdNames == <<"a", "b", "c", "d", "e", "f">>
Types == {"required", "optional", "goal"}
Viewports == {<<640, 480>>, <<1000, 600>>}

\* the value of a field that was never assigned
Undef == -1

----------------------------------------------------------------------------
(* JavaScript numbers: k = "fin" (the rational n/d in lowest terms, d > 0), *)
(* "nan", or "inf" (n = 1 for +Infinity, -1 for -Infinity).                 *)

Abs(i) == IF i < 0 THEN -i ELSE i

Sign(i) == IF i < 0 THEN -1 ELSE IF i > 0 THEN 1 ELSE 0

RECURSIVE Gcd(_, _)
Gcd(a, b) == IF b = 0 THEN a ELSE Gcd(b, a % b)

NaN == [k |-> "nan", n |-> 0, d |-> 1]

Infinity(s) == [k |-> "inf", n |-> s, d |-> 1]

Fin(n, d) ==
    IF d = 1 THEN [k |-> "fin", n |-> n, d |-> 1]
    ELSE LET g == Gcd(Abs(n), Abs(d))
             s == IF d < 0 THEN -1 ELSE 1
         IN  [k |-> "fin", n |-> (s * n) \div g, d |-> (s * d) \div g]

Num(i) == [k |-> "fin", n |-> i, d |-> 1]

\* a + b
JsAdd(a, b) ==
    IF a.k = "fin" /\ b.k = "fin" THEN Fin(a.n * b.d + b.n * a.d, a.d * b.d)
    ELSE IF a.k = "nan" \/ b.k = "nan" THEN NaN
    ELSE IF a.k = "inf" /\ b.k = "inf" THEN (IF a.n = b.n THEN a ELSE NaN)
    ELSE IF a.k = "inf" THEN a
    ELSE b

\* a * b
JsMul(a, b) ==
    IF a.k = "fin" /\ b.k = "fin" THEN Fin(a.n * b.n, a.d * b.d)
    ELSE IF a.k = "nan" \/ b.k = "nan" THEN NaN
    ELSE IF a.n = 0 \/ b.n = 0 THEN NaN
    ELSE Infinity(Sign(a.n) * Sign(b.n))

\* a - b
JsSub(a, b) == JsAdd(a, JsMul(Num(-1), b))

\* a / b: no exception is ever raised, 0/0 is NaN and x/0 is +/-Infinity
JsDiv(a, b) ==
    IF a.k = "fin" /\ b.k = "fin"
    THEN (IF b.n # 0 THEN Fin(a.n * b.d, a.d * b.n)
          ELSE IF a.n = 0 THEN NaN ELSE Infinity(Sign(a.n)))
    ELSE IF a.k = "nan" \/ b.k = "nan" THEN NaN
    ELSE IF a.k = "inf" THEN (IF b.k = "inf" THEN NaN
                              ELSE Infinity(a.n * (IF b.n < 0 THEN -1 ELSE 1)))
    ELSE Num(0)

\* the sign of a number as Array.prototype.sort reads a comparator result
\* (NaN counts as 0)
JsSign(a) == IF a.k = "nan" THEN 0 ELSE Sign(a.n)

----------------------------------------------------------------------------
(* Node records and input graphs *)

NodeCount == Len(nodes)

NodeIdx == 1 .. NodeCount

\* a node record of the input; hasPrereqs = FALSE models an absent
\* prereqs field (the field is optional in the input format)
Node(id, type, prereqs, has) ==
    [id |-> id, type |-> type, prereqs |-> prereqs, hasPrereqs |-> has]

\* elements of a sequence
Range(s) == {s[i] : i \in 1 .. Len(s)}

\* the members of a set of positions as an increasing sequence
RECURSIVE SortedSeq(_)
SortedSeq(S) ==
    IF S = {} THEN <<>>
    ELSE LET m == CHOOSE x \in S : \A y \in S : x <= y
         IN  <<m>> \o SortedSeq(S \ {m})

\* prereqs given as sets of positions: does repeatedly removing the nodes
\* with no remaining prereq remove every node?
RECURSIVE Peels(_, _)
Peels(S, pr) ==
    IF S = {} THEN TRUE
    ELSE LET roots == {i \in S : pr[i] \cap S = {}}
         IN  IF roots = {} THEN FALSE ELSE Peels(S \ roots, pr)

\* the data-model invariants on an input: ids unique, every prereq id is the
\* id of a node, the prereqs relation is acyclic
UniqueIds(g) == \A i, j \in 1 .. Len(g) : g[i].id = g[j].id => i = j

NoDangling(g) ==
    \A i \in 1 .. Len(g) : \A p \in Range(g[i].prereqs) :
        \E j \in 1 .. Len(g) : g[j].id = p

PrereqPositions(g, i) ==
    {j \in 1 .. Len(g) : g[j].id \in Range(g[i].prereqs)}

Acyclic(g) ==
    Peels(1 .. Len(g), [i \in 1 .. Len(g) |-> PrereqPositions(g, i)])

WellFormed(g) == UniqueIds(g) /\ NoDangling(g) /\ Acyclic(g)

----------------------------------------------------------------------------
(* Program constants: the defaults of the layout configuration *)

nodeWidth == 136
nodeHeight == 44
nodeGap == 30
layerPadding == 34

AllIds == Range(IdNames)

Max(S) == CHOOSE x \in S : \A y \in S : y <= x

----------------------------------------------------------------------------
(* constructor, lines 22-24: this.nodeMap[n.id] = n for every node in input *)
(* order, so of two nodes with one id the later one stays in the map        *)

BuildNodeMap(g) ==
    [id \in AllIds |->
        IF \E i \in 1 .. Len(g) : g[i].id = id
        THEN Max({i \in 1 .. Len(g) : g[i].id = id})
        ELSE 0]

----------------------------------------------------------------------------
(* computeLayers, lines 40-50.  A result is [err, val, cache]: err is "ok"  *)
(* or the exception thrown.  depth counts the frames of computeLayer on the *)
(* stack; the engine throws RangeError when the stack is exhausted.         *)

\* mutant of mathMax: the smallest value instead of the largest
mathMin(vals) == CHOOSE x \in Range(vals) : \A y \in Range(vals) : x <= y

\* mutant of mathMax: the first value only
mathFirst(vals) == vals[1]

\* Math.max(...values), line 46
mathMax(vals) == Max(Range(vals))

RECURSIVE computeLayer(_, _, _, _, _)
RECURSIVE mapPrereqs(_, _, _, _, _, _, _)

\* node.prereqs.map(p => computeLayer(p) + 1), left to right from index k,
\* acc holding the values mapped so far
mapPrereqs(g, nm, prs, k, cache, depth, acc) ==
    IF k > Len(prs) THEN [err |-> "ok", val |-> acc, cache |-> cache]
    ELSE LET r == computeLayer(g, nm, prs[k], cache, depth)
         IN  IF r.err # "ok" THEN [err |-> r.err, val |-> acc, cache |-> r.cache]
             ELSE mapPrereqs(g, nm, prs, k + 1, r.cache, depth,
                             Append(acc, r.val + 1))

computeLayer(g, nm, id, cache, depth) ==
    IF depth > StackLimit
    THEN [err |-> "RangeError", val |-> Undef, cache |-> cache]
    ELSE IF cache[id] # Undef
    THEN [err |-> "ok", val |-> cache[id], cache |-> cache]
    ELSE IF nm[id] = 0
    THEN [err |-> "TypeError", val |-> Undef, cache |-> cache]
    ELSE LET node == g[nm[id]]
         IN  IF ~node.hasPrereqs \/ Len(node.prereqs) = 0
             THEN [err |-> "ok", val |-> 0, cache |-> [cache EXCEPT ![id] = 0]]
             ELSE LET m == mapPrereqs(g, nm, node.prereqs, 1, cache, depth + 1, <<>>)
                  IN  IF m.err # "ok"
                      THEN [err |-> m.err, val |-> Undef, cache |-> m.cache]
                      ELSE LET v == mathMax(m.val)
                           IN  [err |-> "ok", val |-> v,
                                cache |-> [m.cache EXCEPT ![id] = v]]

\* this.nodes.forEach(n => n.layer = computeLayer(n.id)) from node i on;
\* lay holds the layer fields assigned so far
RECURSIVE layersFrom(_, _, _, _, _)
layersFrom(g, nm, i, cache, lay) ==
    IF i > Len(g) THEN [err |-> "ok", layer |-> lay]
    ELSE LET r == computeLayer(g, nm, g[i].id, cache, 1)
         IN  IF r.err # "ok" THEN [err |-> r.err, layer |-> lay]
             ELSE layersFrom(g, nm, i + 1, r.cache, [lay EXCEPT ![i] = r.val])

computeLayers(g, nm) ==
    layersFrom(g, nm, 1, [id \in AllIds |-> Undef], [i \in 1 .. Len(g) |-> Undef])

----------------------------------------------------------------------------
(* isUnlocked, lines 53-56 *)

\* mutant of isUnlocked: some prereq completed instead of every prereq
isUnlockedSome(node, done) ==
    IF ~node.hasPrereqs \/ Len(node.prereqs) = 0 THEN TRUE
    ELSE \E k \in 1 .. Len(node.prereqs) : node.prereqs[k] \in done

isUnlocked(node, done) ==
    IF ~node.hasPrereqs \/ Len(node.prereqs) = 0 THEN TRUE
    ELSE \A k \in 1 .. Len(node.prereqs) : node.prereqs[k] \in done

----------------------------------------------------------------------------
(* toggle, lines 66-77: cascadeRemove(id) walks this.nodes in input order   *)
(* (from position i on) and, for every completed node that lists id among   *)
(* its prereqs, deletes it and recurses on it before going on               *)

\* mutant of cascadeFrom: the direct dependents are deleted, without
\* recursing on them
RECURSIVE cascadeShallow(_, _, _, _)
cascadeShallow(g, id, i, done) ==
    IF i > Len(g) THEN done
    ELSE LET n == g[i]
         IN  IF n.hasPrereqs /\ id \in Range(n.prereqs) /\ n.id \in done
             THEN cascadeShallow(g, id, i + 1, done \ {n.id})
             ELSE cascadeShallow(g, id, i + 1, done)

\* mutant of cascadeFrom: the walk ends with the first dependent it revokes
RECURSIVE cascadeFirstOnly(_, _, _, _)
cascadeFirstOnly(g, id, i, done) ==
    IF i > Len(g) THEN done
    ELSE LET n == g[i]
         IN  IF n.hasPrereqs /\ id \in Range(n.prereqs) /\ n.id \in done
             THEN cascadeFirstOnly(g, n.id, 1, done \ {n.id})
             ELSE cascadeFirstOnly(g, id, i + 1, done)

RECURSIVE cascadeFrom(_, _, _, _)
cascadeFrom(g, id, i, done) ==
    IF i > Len(g) THEN done
    ELSE LET n == g[i]
         IN  IF n.hasPrereqs /\ id \in Range(n.prereqs) /\ n.id \in done
             THEN cascadeFrom(g, id, i + 1,
                              cascadeFrom(g, n.id, 1, done \ {n.id}))
             ELSE cascadeFrom(g, id, i + 1, done)

\* mutant of cascadeRun: the recursion comes before the deletion
RECURSIVE cascadeRunDeleteLate(_, _, _, _, _)
cascadeRunDeleteLate(g, id, i, done, depth) ==
    IF depth > StackLimit \/ i > Len(g) THEN [done |-> done, frames |-> depth]
    ELSE LET n == g[i]
         IN  IF n.hasPrereqs /\ id \in Range(n.prereqs) /\ n.id \in done
             THEN LET deep == cascadeRunDeleteLate(g, n.id, 1, done, depth + 1)
                      rest == cascadeRunDeleteLate(g, id, i + 1,
                                                   deep.done \ {n.id}, depth)
                  IN  IF deep.frames > StackLimit THEN deep
                      ELSE [done |-> rest.done,
                            frames |-> IF deep.frames > rest.frames
                                       THEN deep.frames ELSE rest.frames]
             ELSE cascadeRunDeleteLate(g, id, i + 1, done, depth)

\* the same walk with its stack: frames is the deepest nesting of
\* cascadeRemove calls reached from this call, itself at the given depth;
\* frames above StackLimit means that the engine threw RangeError, and done
\* is then the set as the deletions before the throw left it
RECURSIVE cascadeRun(_, _, _, _, _)
cascadeRun(g, id, i, done, depth) ==
    IF depth > StackLimit \/ i > Len(g) THEN [done |-> done, frames |-> depth]
    ELSE LET n == g[i]
         IN  IF n.hasPrereqs /\ id \in Range(n.prereqs) /\ n.id \in done
             THEN LET deep == cascadeRun(g, n.id, 1, done \ {n.id}, depth + 1)
                      rest == cascadeRun(g, id, i + 1, deep.done, depth)
                  IN  IF deep.frames > StackLimit THEN deep
                      ELSE [done |-> rest.done,
                            frames |-> IF deep.frames > rest.frames
                                       THEN deep.frames ELSE rest.frames]
             ELSE cascadeRun(g, id, i + 1, done, depth)

\* does cascadeRemove(id) exhaust the stack?
cascadeOverflows(g, id, done) == cascadeRun(g, id, 1, done, 1).frames > StackLimit

cascadeRemove(g, id, done) == cascadeFrom(g, id, 1, done)

\* mutant of toggleBlocked: the early return is missing
toggleNeverBlocked(node, done) == FALSE

\* line 64: toggle returns at once on a node neither unlocked nor done
toggleBlocked(node, done) == ~isUnlocked(node, done) /\ ~(node.id \in done)

\* mutant of toggleCompleted: a completed node is removed without the cascade
toggleNoCascade(g, node, done) ==
    IF node.id \in done THEN done \ {node.id} ELSE done \cup {node.id}

\* mutant of toggleCompleted: a revocation takes the prereqs of the node too
toggleRevokesPrereqs(g, node, done) ==
    IF node.id \in done
    THEN cascadeRemove(g, node.id, done) \ ({node.id} \cup Range(node.prereqs))
    ELSE done \cup {node.id}

\* lines 66-80: the completed set toggle(node) leaves when it does not
\* return at once
toggleCompleted(g, node, done) ==
    IF node.id \in done
    THEN cascadeRemove(g, node.id, done) \ {node.id}
    ELSE done \cup {node.id}

\* lines 59-80: this.completed after toggle(node)
toggleResult(g, node, done) ==
    IF toggleBlocked(node, done) THEN done ELSE toggleCompleted(g, node, done)

\* mutant of resetCompleted: nothing is cleared
resetKeepsAll(done) == done

\* reset, line 88: this.completed.clear()
resetCompleted(done) == {}

----------------------------------------------------------------------------
(* updateProgress, lines 94-102.  The progress record holds what the call   *)
(* wrote: the two counts of the text and the number put before '%'.         *)

NoProgress == [set |-> FALSE, k |-> 0, n |-> 0, width |-> Num(0)]

requiredCount(g) == Cardinality({i \in 1 .. Len(g) : g[i].type = "required"})

completedRequired(g, done) ==
    Cardinality({i \in 1 .. Len(g) : g[i].type = "required" /\ g[i].id \in done})

\* completedRequired / required.length * 100
progressPercent(k, n) == JsMul(JsDiv(Num(k), Num(n)), Num(100))

updateProgress(g, els, done, old) ==
    IF ~els THEN old
    ELSE [set |-> TRUE, k |-> completedRequired(g, done), n |-> requiredCount(g),
          width |-> progressPercent(completedRequired(g, done), requiredCount(g))]

----------------------------------------------------------------------------
(* render, lines 105-157: the layout pass.  A position is [set, x, y];      *)
(* set = FALSE while x and y are still undefined.                           *)

NoPos == [set |-> FALSE, x |-> Num(0), y |-> Num(0)]

\* this.nodeMap[p].x || 0
xOrZero(p) == IF ~p.set \/ p.x.k = "nan" THEN Num(0) ELSE p.x

\* mutant of layerGroup: the completed nodes of the layer come first
layerGroupDoneFirst(g, lay, L) ==
    SortedSeq({i \in 1 .. Len(g) : lay[i] = L /\ g[i].id \in completed})
        \o SortedSeq({i \in 1 .. Len(g) : lay[i] = L /\ g[i].id \notin completed})

\* layers[L]: the nodes of layer L in input order
layerGroup(g, lay, L) ==
    SelectSeq([i \in 1 .. Len(g) |-> i], LAMBDA i : lay[i] = L)

\* Math.max(...Object.keys(layers).map(Number)); Undef stands for the
\* -Infinity of an empty node list, under which the loop body never runs
maxLayerOf(g, lay) ==
    IF Len(g) = 0 THEN Undef ELSE Max({lay[i] : i \in 1 .. Len(g)})

\* a.prereqs.reduce((s, p) => s + (this.nodeMap[p].x || 0), 0) from index k
RECURSIVE sumPrereqX(_, _, _, _, _)
sumPrereqX(nm, ps, prs, k, acc) ==
    IF k > Len(prs) THEN acc
    ELSE sumPrereqX(nm, ps, prs, k + 1, JsAdd(acc, xOrZero(ps[nm[prs[k]]])))

\* mutant of sortKey: the x read are the ones the nodes had when the pass
\* began, not the ones the pass has assigned
sortKeyStale(g, nm, ps, i) ==
    JsDiv(sumPrereqX(nm, pos, g[i].prereqs, 1, Num(0)),
          Num(IF Len(g[i].prereqs) = 0 THEN 1 ELSE Len(g[i].prereqs)))

\* the sort key of a node: the mean x of its prereqs
sortKey(g, nm, ps, i) ==
    JsDiv(sumPrereqX(nm, ps, g[i].prereqs, 1, Num(0)),
          Num(IF Len(g[i].prereqs) = 0 THEN 1 ELSE Len(g[i].prereqs)))

\* does evaluating the sort key of node i throw (a.prereqs undefined, or a
\* prereq id with no entry in nodeMap)?
sortKeyThrows(g, nm, i) ==
    \/ ~g[i].hasPrereqs
    \/ \E p \in Range(g[i].prereqs) : nm[p] = 0

\* the comparator of line 132: ax - bx
compareNodes(g, nm, ps, a, b) == JsSub(sortKey(g, nm, ps, a), sortKey(g, nm, ps, b))

\* mutant of insertSorted: an unstable sort, e goes before its equals
RECURSIVE insertBeforeEqual(_, _, _, _, _)
insertBeforeEqual(g, nm, ps, sorted, e) ==
    IF sorted = <<>> THEN <<e>>
    ELSE LET lastE == sorted[Len(sorted)]
         IN  IF JsSign(compareNodes(g, nm, ps, e, lastE)) <= 0
             THEN Append(insertBeforeEqual(g, nm, ps,
                                           SubSeq(sorted, 1, Len(sorted) - 1), e),
                         lastE)
             ELSE Append(sorted, e)

\* Array.prototype.sort is stable: e goes after every element it does not
\* compare below
RECURSIVE insertSorted(_, _, _, _, _)
insertSorted(g, nm, ps, sorted, e) ==
    IF sorted = <<>> THEN <<e>>
    ELSE LET lastE == sorted[Len(sorted)]
         IN  IF JsSign(compareNodes(g, nm, ps, e, lastE)) < 0
             THEN Append(insertSorted(g, nm, ps, SubSeq(sorted, 1, Len(sorted) - 1), e),
                         lastE)
             ELSE Append(sorted, e)

RECURSIVE sortGroup(_, _, _, _, _, _)
sortGroup(g, nm, ps, group, k, acc) ==
    IF k > Len(group) THEN acc
    ELSE sortGroup(g, nm, ps, group, k + 1,
                   insertSorted(g, nm, ps, acc, group[k]))

\* the order of layer L on screen: input order for L = 0, sorted otherwise
orderedGroup(g, nm, ps, group, L) ==
    IF L > 0 THEN sortGroup(g, nm, ps, group, 1, <<>>) ELSE group

\* startX of a group of count nodes, lines 139-141
startXOf(count, W) ==
    LET totalWidth == count * nodeWidth + (count - 1) * nodeGap
    IN  JsAdd(JsDiv(Num(W - totalWidth), Num(2)), JsDiv(Num(nodeWidth), Num(2)))

\* n.x of the i-th node (from 0) of a group, line 144
xAt(startX, i) == JsAdd(startX, Num(i * (nodeWidth + nodeGap)))

\* n.y of a node of layer L, line 145
yAt(L, maxLayer, H) ==
    JsAdd(Num(layerPadding),
          JsMul(JsDiv(Num(L), Num(maxLayer)), Num(H - layerPadding * 2)))

\* group.forEach((n, i) => ...), lines 143-146, from the k-th node of the
\* group on: each node goes to startX + i * (nodeWidth + nodeGap) and to the
\* y of the layer
RECURSIVE placeFrom(_, _, _, _, _)
placeFrom(ps, ordered, k, startX, y) ==
    IF k > Len(ordered) THEN ps
    ELSE placeFrom([ps EXCEPT ![ordered[k]] =
                        [set |-> TRUE, x |-> xAt(startX, k - 1), y |-> y]],
                   ordered, k + 1, startX, y)

placeGroup(ps, ordered, L, maxLayer, vp) ==
    placeFrom(ps, ordered, 1, startXOf(Len(ordered), vp[1]),
              yAt(L, maxLayer, vp[2]))

\* the loop of lines 127-147 from layer L on; a sort that throws leaves the
\* earlier layers placed
RECURSIVE layoutFrom(_, _, _, _, _, _, _)
layoutFrom(g, nm, lay, ps, L, maxLayer, vp) ==
    IF L > maxLayer THEN [err |-> "ok", pos |-> ps]
    ELSE LET group == layerGroup(g, lay, L)
         IN  IF L > 0 /\ Len(group) >= 2
                      /\ \E i \in Range(group) : sortKeyThrows(g, nm, i)
             THEN [err |-> "TypeError", pos |-> ps]
             ELSE layoutFrom(g, nm, lay,
                             placeGroup(ps, orderedGroup(g, nm, ps, group, L),
                                        L, maxLayer, vp),
                             L + 1, maxLayer, vp)

\* renderEdges, lines 205-210: this.nodeMap[pid] is undefined for a prereq
\* id that is no node's id, and reading from.id then throws
renderEdgesThrows(g, nm) ==
    \E i \in 1 .. Len(g) :
        g[i].hasPrereqs /\ \E p \in Range(g[i].prereqs) : nm[p] = 0

\* stage tells how far the call got: it threw in the layout loop ("layout"),
\* in renderEdges ("edges"), or it ran to the end of renderNodes ("nodes")
render(g, nm, lay, ps, vp) ==
    LET r == layoutFrom(g, nm, lay, ps, 0, maxLayerOf(g, lay), vp)
    IN  IF r.err # "ok"
        THEN [err |-> r.err, pos |-> r.pos, stage |-> "layout"]
        ELSE IF renderEdgesThrows(g, nm)
        THEN [err |-> "TypeError", pos |-> r.pos, stage |-> "edges"]
        ELSE [err |-> "ok", pos |-> r.pos, stage |-> "nodes"]

----------------------------------------------------------------------------
(* render, lines 127-147, seen as reads and writes of x: the layers are    *)
(* placed in increasing order, and the comparator of the sort of a layer   *)
(* L > 0 with two or more nodes reads the x of the prereqs of its nodes    *)

\* the <<reader, read>> pairs of node objects of the sort of one layer
sortReads(g, nm, group) ==
    IF Len(group) < 2 THEN {}
    ELSE {rd \in Range(group) \X (1 .. Len(g)) :
            \E p \in Range(g[rd[1]].prereqs) : nm[p] = rd[2]}

\* placed: the node objects whose x this pass has assigned so far;
\* acc: the reads, so far, of an x that this pass had not assigned
RECURSIVE staleFrom(_, _, _, _, _, _, _)
staleFrom(g, nm, lay, L, maxLayer, placed, acc) ==
    IF L > maxLayer THEN acc
    ELSE LET group == layerGroup(g, lay, L)
             reads == IF L > 0 THEN sortReads(g, nm, group) ELSE {}
         IN  staleFrom(g, nm, lay, L + 1, maxLayer, placed \cup Range(group),
                       acc \cup {rd \in reads : rd[2] \notin placed})

renderStale(g, nm, lay) == staleFrom(g, nm, lay, 0, maxLayerOf(g, lay), {}, {})

----------------------------------------------------------------------------
(* renderEdges, lines 204-260, and renderNodes, lines 263-381: what is     *)
(* drawn.  Of an edge the model keeps its two node objects and the branch  *)
(* taken at lines 218-242, of a node the branch taken at lines 276-306.    *)

NothingDrawn == [nodes |-> <<>>, edges |-> <<>>]

\* mutant of edgeVisual: the optional style is chosen by the type of from
edgeVisualFromType(from, to, done) ==
    LET bothDone == from.id \in done /\ to.id \in done
        isLocked == \/ (to.id \notin done /\ ~isUnlocked(to, done))
                    \/ (from.id \notin done /\ ~isUnlocked(from, done))
    IN  IF bothDone THEN "bothDone"
        ELSE IF isLocked THEN "locked"
        ELSE IF from.type = "optional" THEN "optional"
        ELSE "required"

\* lines 212-242
edgeVisual(from, to, done) ==
    LET bothDone == from.id \in done /\ to.id \in done
        isLocked == \/ (to.id \notin done /\ ~isUnlocked(to, done))
                    \/ (from.id \notin done /\ ~isUnlocked(from, done))
    IN  IF bothDone THEN "bothDone"
        ELSE IF isLocked THEN "locked"
        ELSE IF to.type = "optional" THEN "optional"
        ELSE "required"

\* the <<node object, prereq index>> pairs whose prereq id is no node's id:
\* line 209 throws at the first of them
danglingEdges(g, nm) ==
    {e \in (1 .. Len(g)) \X (1 .. Len(g)) :
        /\ g[e[1]].hasPrereqs /\ e[2] <= Len(g[e[1]].prereqs)
        /\ nm[g[e[1]].prereqs[e[2]]] = 0}

\* lines 205-259: the edges are drawn node by node and prereq by prereq;
\* edges[i][k] is the style of the edge to node object i from its k-th
\* prereq, "none" for an edge that was not reached because line 209 threw
\* at one of the edges D before it
drawEdges(g, nm, done, D) ==
    [i \in 1 .. Len(g) |->
        [k \in 1 .. (IF g[i].hasPrereqs THEN Len(g[i].prereqs) ELSE 0) |->
            IF \E d \in D : d[1] < i \/ (d[1] = i /\ d[2] <= k)
            THEN "none"
            ELSE edgeVisual(g[nm[g[i].prereqs[k]]], g[i], done)]]

\* mutant of nodeVisual: the type styles come before the locked style
nodeVisualTypeFirst(node, done) ==
    LET isDone == node.id \in done
        isLocked == ~isDone /\ ~isUnlocked(node, done)
    IN  IF isDone THEN "done"
        ELSE IF node.type = "goal" THEN "goal"
        ELSE IF node.type = "optional" THEN "optional"
        ELSE IF isLocked THEN "locked"
        ELSE "required"

\* lines 265-306
nodeVisual(node, done) ==
    LET isDone == node.id \in done
        isLocked == ~isDone /\ ~isUnlocked(node, done)
    IN  IF isDone THEN "done"
        ELSE IF isLocked THEN "locked"
        ELSE IF node.type = "goal" THEN "goal"
        ELSE IF node.type = "optional" THEN "optional"
        ELSE "required"

\* lines 263-264: one group per node, in input order
drawNodes(g, done) == [i \in 1 .. Len(g) |-> nodeVisual(g[i], done)]

\* render, lines 150-156: the container is emptied, then the edges and the
\* nodes are drawn; stage is how far render got
paint(g, nm, done, stage) ==
    IF stage = "layout" THEN NothingDrawn
    ELSE IF stage = "edges"
    THEN [nodes |-> <<>>, edges |-> drawEdges(g, nm, done, danglingEdges(g, nm))]
    ELSE [nodes |-> drawNodes(g, done), edges |-> drawEdges(g, nm, done, {})]

----------------------------------------------------------------------------
(* Inputs *)

\* the ids at the given positions, as a prereqs array
IdsAt(ixs) == [k \in 1 .. Len(ixs) |-> IdNames[ixs[k]]]

\* a well-formed input of n nodes: node i has id IdNames[i], pr[i] are the
\* positions of its prereqs (which may come later in the input), ty[i] its
\* type; with omit, a node without prereqs has no prereqs field at all
GraphOf(n, pr, ty, omit) ==
    [i \in 1 .. n |->
        Node(IdNames[i], ty[i], IdsAt(SortedSeq(pr[i])), pr[i] # {} \/ ~omit)]

\* an arbitrary input of n nodes: ids may repeat, a prereq may name no node
\* or close a cycle
AnyGraphOf(n, ids, prs, ty, omit) ==
    [i \in 1 .. n |-> Node(ids[i], ty[i], prs[i], prs[i] # <<>> \/ ~omit)]

BuildPrereqs(n) == {<<>>} \cup {<<IdNames[j]>> : j \in 1 .. n + 1}

InitEngine ==
    /\ viewport \in Viewports
    /\ status = "new"
    /\ nodeMap = [id \in AllIds |-> 0]
    /\ layer = [i \in 1 .. Len(nodes) |-> Undef]
    /\ completed = {}
    /\ pos = [i \in 1 .. Len(nodes) |-> NoPos]
    /\ progress = NoProgress
    /\ last = [op |-> "none", node |-> 0, removed |-> 0]
    /\ drawn = NothingDrawn
    /\ staleReads = {}

\* before construction, over every well-formed graph structure: all nodes
\* are required ones and the progress elements exist
Init ==
    /\ \E n \in 0 .. MaxNodes : \E pr \in [1 .. n -> SUBSET (1 .. n)] :
         /\ Peels(1 .. n, pr)
         /\ \E omit \in BOOLEAN :
              nodes = GraphOf(n, pr, [i \in 1 .. n |-> "required"], omit)
    /\ progressEls = TRUE
    /\ InitEngine

\* before construction, over the well-formed graphs with every assignment
\* of node types, with and without progress elements
InitTyped ==
    /\ \E n \in 0 .. MaxTypedNodes : \E pr \in [1 .. n -> SUBSET (1 .. n)] :
         /\ Peels(1 .. n, pr)
         /\ \E ty \in [1 .. n -> Types], omit \in BOOLEAN :
              nodes = GraphOf(n, pr, ty, omit)
    /\ progressEls \in BOOLEAN
    /\ InitEngine

\* before construction, over arbitrary inputs (all nodes required ones,
\* the progress elements exist)
InitBuild ==
    /\ \E n \in 0 .. MaxBuildNodes :
         \E ids \in [1 .. n -> {IdNames[j] : j \in 1 .. n}],
            prs \in [1 .. n -> BuildPrereqs(n)], omit \in BOOLEAN :
              nodes = AnyGraphOf(n, ids, prs, [i \in 1 .. n |-> "required"], omit)
    /\ progressEls = TRUE
    /\ InitEngine

\* before construction, over the well-formed graphs whose nodes come after
\* their prereqs in the input.  The layout pass reads the input order only
\* inside a layer (layerGroup), and ordering any input by layer, stably,
\* gives an input of this family with the same order inside every layer.
InitLayout ==
    /\ \E n \in 0 .. MaxLayoutNodes :
         \E E \in SUBSET {e \in (1 .. n) \X (1 .. n) : e[1] < e[2]},
            omit \in BOOLEAN :
              nodes = GraphOf(n, [i \in 1 .. n |-> {j \in 1 .. n : <<j, i>> \in E}],
                              [i \in 1 .. n |-> "required"], omit)
    /\ progressEls = TRUE
    /\ InitEngine

----------------------------------------------------------------------------
(* Operations *)

\* new TechtreeRenderer(config), lines 6-37
Construct ==
    /\ status = "new"
    /\ \E nm \in {BuildNodeMap(nodes)} : \E cl \in {computeLayers(nodes, nm)} :
           /\ nodeMap' = nm
           /\ layer' = cl.layer
           /\ IF cl.err # "ok"
              THEN /\ status' = cl.err
                   /\ UNCHANGED <<pos, drawn, staleReads>>
              ELSE \E r \in {render(nodes, nm, cl.layer, pos, viewport)} :
                   /\ status' = (IF r.err = "ok" THEN "ready" ELSE r.err)
                   /\ pos' = r.pos
                   /\ drawn' = paint(nodes, nm, {}, r.stage)
                   /\ staleReads' = renderStale(nodes, nm, cl.layer)
    /\ completed' = {}
    /\ last' = [op |-> "construct", node |-> 0, removed |-> 0]
    /\ UNCHANGED <<nodes, progressEls, viewport, progress>>

\* a click on node object i: toggle(node), lines 59-84
Toggle(i) ==
    /\ status = "ready"
    /\ i \in NodeIdx
    /\ LET node == nodes[i]
       IN  IF toggleBlocked(node, completed)
           THEN /\ UNCHANGED <<completed, progress, pos, drawn, staleReads>>
                /\ last' = [op |-> "locked", node |-> i, removed |-> 0]
           ELSE IF node.id \in completed
                   /\ cascadeOverflows(nodes, node.id, completed)
           THEN \* the stack is exhausted inside cascadeRemove: toggle is
                \* left by the exception, before lines 77-83
                /\ completed' = cascadeRun(nodes, node.id, 1, completed, 1).done
                /\ UNCHANGED <<progress, pos, drawn, staleReads>>
                /\ last' = [op |-> "RangeError", node |-> i,
                            removed |-> Cardinality(completed \ completed')]
           ELSE /\ completed' = toggleCompleted(nodes, node, completed)
                /\ progress' = updateProgress(nodes, progressEls, completed', progress)
                /\ \E r \in {render(nodes, nodeMap, layer, pos, viewport)} :
                       /\ pos' = r.pos
                       /\ drawn' = paint(nodes, nodeMap, completed', r.stage)
                /\ staleReads' = renderStale(nodes, nodeMap, layer)
                /\ last' = [op |-> (IF node.id \in completed THEN "revoke"
                                    ELSE "complete"),
                            node |-> i,
                            removed |-> Cardinality(completed \ completed')]
    /\ UNCHANGED <<nodes, progressEls, status, nodeMap, layer, viewport>>

\* reset(), lines 87-91
Reset ==
    /\ status = "ready"
    /\ completed' = resetCompleted(completed)
    /\ progress' = updateProgress(nodes, progressEls, completed', progress)
    /\ \E r \in {render(nodes, nodeMap, layer, pos, viewport)} :
           /\ pos' = r.pos
           /\ drawn' = paint(nodes, nodeMap, completed', r.stage)
    /\ staleReads' = renderStale(nodes, nodeMap, layer)
    /\ last' = [op |-> "reset", node |-> 0,
                removed |-> Cardinality(completed \ completed')]
    /\ UNCHANGED <<nodes, progressEls, status, nodeMap, layer, viewport>>

\* a window resize event, line 36: the container has size vp and render() runs
Resize(vp) ==
    /\ status = "ready"
    /\ viewport' = vp
    /\ \E r \in {render(nodes, nodeMap, layer, pos, vp)} :
           /\ pos' = r.pos
           /\ drawn' = paint(nodes, nodeMap, completed, r.stage)
    /\ staleReads' = renderStale(nodes, nodeMap, layer)
    /\ last' = [op |-> "resize", node |-> 0, removed |-> 0]
    /\ UNCHANGED <<nodes, progressEls, status, nodeMap, layer, completed, progress>>

Next ==
    \/ Construct
    \/ \E i \in 1 .. Len(nodes) : Toggle(i)
    \/ Reset
    \/ \E vp \in Viewports : Resize(vp)

Spec == Init /\ [][Next]_vars

SpecTyped == InitTyped /\ [][Next]_vars

SpecBuild == InitBuild /\ [][Next]_vars

\* the layout pass alone: construction, then passes on nodes that carry the
\* x and y of the pass before, with the same or another container size
NextLayout ==
    \/ Construct
    \/ \E vp \in Viewports : Resize(vp)

SpecLayout == InitLayout /\ [][NextLayout]_vars

----------------------------------------------------------------------------
(* Properties.  They are stated over the graph itself, not through the      *)
(* operators that model the code.                                           *)

\* the prereq ids of node object i (none when the field is absent)
PrereqIds(i) == Range(nodes[i].prereqs)

\* the position of the node with the given id (ids unique)
PosOf(id) == CHOOSE j \in NodeIdx : nodes[j].id = id

\* the ids of the nodes that list an id of S among their prereqs
Dependents(S) == {nodes[i].id : i \in {j \in NodeIdx : PrereqIds(j) \cap S # {}}}

\* S together with everything reachable from S through reversed prereq edges
RECURSIVE DownClosure(_)
DownClosure(S) ==
    LET T == S \cup Dependents(S)
    IN  IF T = S THEN S ELSE DownClosure(T)

ToggleOps == {"locked", "complete", "revoke"}

\* C1: after any sequence of toggle and reset calls on a well-formed graph,
\* every completed node has all of its prereqs completed.
CompletedPrereqsSatisfied ==
    \A i \in NodeIdx : nodes[i].id \in completed => PrereqIds(i) \subseteq completed

\* C1 witness: a revocation has run and a completed node with prereqs is left
CompletedPrereqsWitness ==
    /\ last.op = "revoke"
    /\ \E i \in NodeIdx : nodes[i].id \in completed /\ PrereqIds(i) # {}

\* C2: toggle on a completed node n leaves exactly the old completed set
\* minus n and minus its transitive dependents.
RevokeRemovesDownClosure ==
    [][last'.op = "revoke" =>
          completed' = completed \ DownClosure({nodes[last'.node].id})]_vars

\* C2 witness: on a chain i -> j -> k with all three completed, j was
\* revoked: two ids were removed and exactly the id of i is left
RevokeChainWitness ==
    \E i, j, k \in NodeIdx :
        /\ nodes[j].prereqs = <<nodes[i].id>>
        /\ nodes[k].prereqs = <<nodes[j].id>>
        /\ last = [op |-> "revoke", node |-> j, removed |-> 2]
        /\ completed = {nodes[i].id}

\* C3: toggle on a node that is not completed and has a prereq that is not
\* completed leaves the completed set unchanged, and an id is only ever added
\* in a state where all prereqs of its node are completed.
LockedToggleChangesNothing ==
    [][/\ \A i \in NodeIdx :
            (/\ last'.op \in ToggleOps
             /\ last'.node = i
             /\ nodes[i].id \notin completed
             /\ ~(PrereqIds(i) \subseteq completed)) => completed' = completed
       /\ \A i \in NodeIdx :
            nodes[i].id \in completed' \ completed =>
                PrereqIds(i) \subseteq completed]_vars

\* C3 witness: the last call was toggle on a locked, incomplete node, in a
\* state where other nodes are completed
LockedToggleWitness ==
    /\ last.op = "locked"
    /\ nodes[last.node].id \notin completed
    /\ ~(PrereqIds(last.node) \subseteq completed)
    /\ completed # {}

\* C4: after layer assignment on a well-formed graph, a node without prereqs
\* has layer 0 and any other node has layer 1 + the largest layer of its
\* prereqs, whatever the input order.
LayerIsLongestPath ==
    status = "ready" =>
        \A i \in NodeIdx :
            layer[i] = IF PrereqIds(i) = {} THEN 0
                       ELSE 1 + Max({layer[PosOf(p)] : p \in PrereqIds(i)})

\* C4 witness: a node of layer 2 whose prereqs have different layers and
\* come later in the input, and a node of layer 0 without a prereqs field
LayerWitness ==
    /\ status = "ready"
    /\ \E i \in NodeIdx :
         /\ layer[i] = 2
         /\ \A p \in PrereqIds(i) : PosOf(p) > i
         /\ \E p, q \in PrereqIds(i) : layer[PosOf(p)] # layer[PosOf(q)]
    /\ \E k \in NodeIdx : ~nodes[k].hasPrereqs /\ layer[k] = 0

\* C5: on an input whose prereqs relation has a cycle (ids unique, no
\* dangling prereq), layer assignment fails with CycleDetectedError: it
\* neither recurses without bound nor completes.
CycleRaisesCycleDetectedError ==
    (/\ status # "new"
     /\ UniqueIds(nodes) /\ NoDangling(nodes) /\ ~Acyclic(nodes))
        => status = "CycleDetectedError"

\* C6: construction fails with MalformedGraphError when two input nodes
\* share an id or a prereq names no input node; a duplicate id is never
\* resolved by the later node overwriting the earlier one.
MalformedRaisesMalformedGraphError ==
    (status # "new" /\ (~UniqueIds(nodes) \/ ~NoDangling(nodes)))
        => status = "MalformedGraphError"

\* the number of required nodes, and of completed required nodes
RequiredN == Cardinality({i \in NodeIdx : nodes[i].type = "required"})

RequiredK ==
    Cardinality({i \in NodeIdx : nodes[i].type = "required"
                                   /\ nodes[i].id \in completed})

\* C7: the progress ratio written is K/N for N required nodes of which K are
\* completed, and with N = 0 it is a defined number, not the result of
\* dividing by zero.
ProgressRatioDefined ==
    progress.set =>
        /\ progress.k = RequiredK
        /\ progress.n = RequiredN
        /\ IF RequiredN > 0
           THEN progress.width = Fin(100 * RequiredK, RequiredN)
           ELSE progress.width.k = "fin"

\* the largest layer of the graph
TopLayer == Max({layer[i] : i \in NodeIdx})

\* C8: when every node is in layer 0 the layout pass gives all nodes one
\* well-defined y; otherwise the y of a node of layer L is
\* layerPadding + (L / maxLayer) * (H - 2 * layerPadding).
LayoutRowsDefined ==
    (status = "ready" /\ NodeCount > 0) =>
        \A i \in NodeIdx :
            /\ pos[i].set
            /\ IF TopLayer = 0
               THEN pos[i].y.k = "fin" /\ \A j \in NodeIdx : pos[j].y = pos[i].y
               ELSE pos[i].y = Fin(layerPadding * TopLayer
                                     + layer[i] * (viewport[2] - 2 * layerPadding),
                                   TopLayer)

\* C9: reset leaves the completed set empty from any reachable state, and a
\* reset right after a reset leaves the same (empty) completed set.
ResetEmptiesCompleted ==
    [][last'.op = "reset" =>
          /\ completed' = {}
          /\ (last.op = "reset" => completed' = completed)]_vars

\* C9 witness: a reset has just removed at least two completed ids
ResetWitness == last.op = "reset" /\ last.removed >= 2 /\ completed = {}

\* C10: isUnlocked(n) is true iff every id of n.prereqs is completed (a node
\* without prereqs is unlocked in every state); the call that only evaluates
\* it (toggle on a locked node) changes neither the completed set nor any
\* node field.
UnlockedIffPrereqsCompleted ==
    /\ [](status = "ready" =>
            \A i \in NodeIdx :
                isUnlocked(nodes[i], completed) <=> PrereqIds(i) \subseteq completed)
    /\ [][last'.op = "locked" => UNCHANGED <<nodes, completed, layer, pos>>]_vars

\* C10 witness: a node with two prereqs of which exactly one is completed
\* (locked), a node whose prereqs are all completed and a node without
\* prereqs, right after a toggle on the locked node
UnlockedWitness ==
    /\ last.op = "locked"
    /\ Cardinality(PrereqIds(last.node) \cap completed) = 1
    /\ Cardinality(PrereqIds(last.node) \ completed) = 1
    /\ \E i \in NodeIdx : PrereqIds(i) = {}

\* the rationals a, b of two finite numbers compared: a < b
NumLess(a, b) == a.n * b.d < b.n * a.d

\* the mean of the x that the prereqs of node object i have now
MeanPrereqX(i) ==
    LET S == {PosOf(p) : p \in PrereqIds(i)}
        RECURSIVE Sum(_)
        Sum(T) == IF T = {} THEN Num(0)
                  ELSE LET j == CHOOSE j \in T : TRUE
                       IN  JsAdd(pos[j].x, Sum(T \ {j}))
    IN  JsDiv(Sum(S), Num(Cardinality(S)))

\* node objects i, j share a layer and i stands left of j
LeftOf(i, j) == layer[i] = layer[j] /\ NumLess(pos[i].x, pos[j].x)

FreshPos == [i \in NodeIdx |-> NoPos]

\* C11: a layout pass over the same graph and container size, run on nodes
\* that carry the x and y of an earlier pass, gives every node the x and y
\* it had (hence the same left-to-right order in every layer), and these
\* are the x and y of a pass over nodes that carry none.
LayoutPassRepeatable ==
    [][/\ (last'.op = "resize" /\ viewport' = viewport) => pos' = pos
       /\ (last'.op \in {"construct", "resize"} /\ status' = "ready") =>
             pos' = render(nodes, nodeMap', layer', FreshPos, viewport').pos]_vars

\* C11 witness: a pass has run on placed nodes, over a graph in which a
\* layer is not in input order
LayoutPassWitness ==
    /\ last.op = "resize"
    /\ \E i, j \in NodeIdx : i < j /\ LeftOf(j, i)

\* C12: in layer 0 the nodes stand from left to right in input order; in a
\* layer above 0 a node with a smaller mean prereq x stands left of one with
\* a larger mean, and of two nodes with equal means the one that comes first
\* in the input stands left.
LayerOrderByMeanPrereqX ==
    status = "ready" =>
        \A i, j \in NodeIdx :
            (i # j /\ layer[i] = layer[j]) =>
                IF layer[i] = 0
                THEN i < j => LeftOf(i, j)
                ELSE /\ NumLess(MeanPrereqX(i), MeanPrereqX(j)) => LeftOf(i, j)
                     /\ (MeanPrereqX(i) = MeanPrereqX(j) /\ i < j) => LeftOf(i, j)

\* C12 witness: after the first pass, a layer above 0 holds a node with a
\* smaller mean than a node that comes before it in the input
LayerOrderWitness ==
    /\ last.op = "construct" /\ status = "ready"
    /\ \E i, j \in NodeIdx :
          /\ i < j /\ layer[i] > 0 /\ layer[i] = layer[j]
          /\ NumLess(MeanPrereqX(j), MeanPrereqX(i))

\* node object i is neither completed nor has all its prereqs completed
LockedNode(i) ==
    nodes[i].id \notin completed /\ ~(PrereqIds(i) \subseteq completed)

NodeStyles == {"done", "locked", "goal", "optional", "required"}

\* C13: every node is drawn in exactly one style: done if it is completed;
\* otherwise locked if it is not unlocked; otherwise the style of its type.
NodeStyleByPrecedence ==
    status = "ready" =>
        \A i \in NodeIdx :
            /\ drawn.nodes[i] \in NodeStyles
            /\ drawn.nodes[i] = "done" <=> nodes[i].id \in completed
            /\ drawn.nodes[i] = "locked" <=> LockedNode(i)
            /\ \A ty \in Types :
                  drawn.nodes[i] = ty <=>
                      /\ nodes[i].type = ty
                      /\ nodes[i].id \notin completed
                      /\ ~LockedNode(i)

\* C13 witness: after a click that completed a node, a completed goal node
\* stands next to an unlocked optional node that is not completed
NodeStyleWitness ==
    /\ last.op = "complete"
    /\ \E i, j \in NodeIdx :
          /\ nodes[i].type = "goal" /\ nodes[i].id \in completed
          /\ nodes[j].type = "optional" /\ nodes[j].id \notin completed
          /\ PrereqIds(j) = {nodes[i].id}

\* C14: the edge to a node from each of its prereqs is drawn bothDone if
\* both ends are completed; otherwise locked if an end is neither completed
\* nor unlocked; otherwise optional if the node it leads to is of type
\* optional; otherwise required.
EdgeStyleByPrecedence ==
    status = "ready" =>
        \A i \in NodeIdx : \A k \in 1 .. Len(nodes[i].prereqs) :
            LET from == PosOf(nodes[i].prereqs[k])
            IN  drawn.edges[i][k] =
                    IF nodes[from].id \in completed /\ nodes[i].id \in completed
                    THEN "bothDone"
                    ELSE IF LockedNode(from) \/ LockedNode(i) THEN "locked"
                    ELSE IF nodes[i].type = "optional" THEN "optional"
                    ELSE "required"

\* C14 witness: an edge from a completed optional node to an unlocked node
\* of another type that is not completed
EdgeStyleWitness ==
    /\ status = "ready"
    /\ \E i, j \in NodeIdx :
          /\ nodes[j].prereqs = <<nodes[i].id>>
          /\ nodes[i].type = "optional" /\ nodes[i].id \in completed
          /\ nodes[j].type # "optional" /\ nodes[j].id \notin completed

\* the orders in which the node list can be walked
NodeOrders == Permutations(NodeIdx)

\* the node list, its objects in the order f
Reordered(f) == [k \in NodeIdx |-> nodes[f[k]]]

\* C15: a revoking toggle only takes ids out of the completed set, and the
\* set it leaves is the one it would leave with the node list in any other
\* order, that is, with the dependents visited in any other order.
CascadeOrderIndependent ==
    [][last'.op = "revoke" =>
          /\ completed' \subseteq completed
          /\ \A f \in NodeOrders :
                completed' = toggleCompleted(Reordered(f), nodes[last'.node],
                                             completed)]_vars

\* C15 witness: a node with two dependents, neither a prereq of the other,
\* was revoked and took both with it
CascadeOrderWitness ==
    /\ last.op = "revoke" /\ last.removed = 3
    /\ \E j, k \in NodeIdx :
          /\ j # k
          /\ PrereqIds(j) = {nodes[last.node].id}
          /\ PrereqIds(k) = {nodes[last.node].id}

\* C16: no toggle and no reset changes the layer of a node, and the layout
\* pass they run, the container size being what it was, leaves every x and
\* y, hence the order in every layer, as it was.
ToggleResetKeepLayout ==
    [][last'.op \in ToggleOps \cup {"reset"} =>
          /\ layer' = layer
          /\ viewport' = viewport
          /\ pos' = pos]_vars

\* C16 witness: a click has completed a node of a layer above 0 that holds
\* another node, while a node of layer 0 stays completed
ToggleResetWitness ==
    /\ last.op = "complete" /\ layer[last.node] > 0
    /\ \E j \in NodeIdx : j # last.node /\ layer[j] = layer[last.node]

\* C17: for a node that is not completed and has all its prereqs completed,
\* toggle adds its id, and toggle on it again, at once, leaves exactly the
\* completed set there was before the first of the two.
DoubleToggleRestores ==
    status = "ready" =>
        \A i \in NodeIdx :
            (nodes[i].id \notin completed /\ PrereqIds(i) \subseteq completed) =>
                LET once == toggleResult(nodes, nodes[i], completed)
                IN  /\ once = completed \cup {nodes[i].id}
                    /\ toggleResult(nodes, nodes[i], once) = completed

\* C17 witness: the second of two such toggles has run on a node with a
\* prereq and a dependent: it took out the id of the node and nothing else
DoubleToggleWitness ==
    /\ last.op = "revoke" /\ last.removed = 1
    /\ nodes[last.node].id \notin completed
    /\ PrereqIds(last.node) # {} /\ PrereqIds(last.node) \subseteq completed
    /\ Dependents({nodes[last.node].id}) # {}

NodeIds == {nodes[i].id : i \in NodeIdx}

\* C18: cascadeRemove returns for every node list, with a cycle among the
\* prereqs or without, and every completed set: every call it makes to
\* itself runs on a set one id smaller, so that it never nests deeper than
\* the number of completed ids, and no toggle exhausts the stack.
CascadeTerminates ==
    /\ last.op # "RangeError"
    /\ status = "new" =>
          \A id \in NodeIds : \A done \in SUBSET NodeIds :
              LET run == cascadeRun(nodes, id, 1, done, 1)
              IN  /\ run.frames <= Cardinality(done) + 1
                  /\ run.frames <= StackLimit
                  /\ run.done = cascadeRemove(nodes, id, done)

\* C18 witness: a completed node that lists its own id among its prereqs
\* was revoked
CascadeCycleWitness ==
    /\ last.op = "revoke" /\ last.removed >= 1
    /\ \E i \in NodeIdx : nodes[i].id \in PrereqIds(i)

\* C19: every prereq of a node lies in a lower layer than the node, and
\* in the last layout pass no sort key read the x of a node to which that
\* pass had not yet assigned its x.
PrereqPlacedBeforeRead ==
    status = "ready" =>
        /\ \A i \in NodeIdx : \A p \in PrereqIds(i) : layer[PosOf(p)] < layer[i]
        /\ staleReads = {}

\* C19 witness: a pass after the first has sorted a layer, its sort keys
\* reading the x of a prereq that comes later in the input
PrereqReadWitness ==
    /\ last.op = "resize"
    /\ \E L \in 1 .. MaxNodes :
          \E rd \in sortReads(nodes, nodeMap, layerGroup(nodes, layer, L)) :
              rd[1] < rd[2]
====
